---- MODULE Spec2Model ----
(***************************************************************************)
(* Model of last_task.py: the assistant bot's command loop, its handlers,  *)
(* and the Field / Record / AddressBook classes behind them.               *)
(*                                                                         *)
(* Strings are TLA+ strings read character by character.  A TLA+ string    *)
(* holds ASCII only, so the character "#" stands for U+0663 ARABIC-INDIC   *)
(* DIGIT THREE wherever a non-ASCII decimal digit is meant.                *)
(***************************************************************************)
EXTENDS Integers, Sequences, FiniteSets, TLC

\* book:     AddressBook.data, the records in the dict's insertion order
\* pc:       where main is: "loop", "done" (after break) or "crashed"
\* op:       the operation performed last and its arguments
\* out:      what that operation printed or returned, or the exception it let out
\* now:      the value datetime.now() gave the last birthday query
\* upcoming: the list the last birthday query returned
VARIABLES book, pc, op, out, now, upcoming

vars == <<book, pc, op, out, now, upcoming>>

(***************************************************************************)
(* Bounds                                                                  *)
(***************************************************************************)
\* longest phone list the Record-level operations build
MaxPhones == 2
\* time of day of the reference instant, in ticks after midnight: 0..MaxTod
MaxTod == 1

(***************************************************************************)
(* Characters and strings                                                  *)
(***************************************************************************)
Ch(s, i) == SubSeq(s, i, i)

AsciiDigits == {"0", "1", "2", "3", "4", "5", "6", "7", "8", "9"}

\* "#" is U+0663, a decimal digit outside ASCII
UnicodeDigits == {"#"}

Whitespace == {" ", "\t"}

\* str.isdigit() on one character: true of every Unicode digit
IsDigitChar(c) == c \in AsciiDigits \cup UnicodeDigits

\* str.isdigit(): non-empty and every character a digit
IsDigit(s) == Len(s) > 0 /\ \A i \in 1..Len(s) : IsDigitChar(Ch(s, i))

\* int() of a one-character digit string
DigitVal(c) ==
    CASE c = "0" -> 0 [] c = "1" -> 1 [] c = "2" -> 2 [] c = "3" -> 3
      [] c = "4" -> 4 [] c = "5" -> 5 [] c = "6" -> 6 [] c = "7" -> 7
      [] c = "8" -> 8 [] c = "9" -> 9 [] c = "#" -> 3

RECURSIVE IntOf(_)
IntOf(s) ==
    IF Len(s) = 0 THEN 0
    ELSE 10 * IntOf(SubSeq(s, 1, Len(s) - 1)) + DigitVal(Ch(s, Len(s)))

\* str.lower() on one character
LowerChar(c) ==
    CASE c = "A" -> "a" [] c = "B" -> "b" [] c = "C" -> "c" [] c = "D" -> "d"
      [] c = "E" -> "e" [] c = "F" -> "f" [] c = "G" -> "g" [] c = "H" -> "h"
      [] c = "I" -> "i" [] c = "J" -> "j" [] c = "K" -> "k" [] c = "L" -> "l"
      [] c = "M" -> "m" [] c = "N" -> "n" [] c = "O" -> "o" [] c = "P" -> "p"
      [] c = "Q" -> "q" [] c = "R" -> "r" [] c = "S" -> "s" [] c = "T" -> "t"
      [] c = "U" -> "u" [] c = "V" -> "v" [] c = "W" -> "w" [] c = "X" -> "x"
      [] c = "Y" -> "y" [] c = "Z" -> "z" [] OTHER -> c

RECURSIVE Lower(_)
Lower(s) ==
    IF Len(s) = 0 THEN ""
    ELSE LowerChar(Ch(s, 1)) \o Lower(SubSeq(s, 2, Len(s)))

\* str.split(): the maximal runs of non-whitespace characters, in order
RECURSIVE SplitFrom(_, _, _, _)
SplitFrom(s, i, cur, acc) ==
    IF i > Len(s)
    THEN IF cur = "" THEN acc ELSE Append(acc, cur)
    ELSE IF Ch(s, i) \in Whitespace
         THEN SplitFrom(s, i + 1, "", IF cur = "" THEN acc ELSE Append(acc, cur))
         ELSE SplitFrom(s, i + 1, cur \o Ch(s, i), acc)

Split(s) == SplitFrom(s, 1, "", <<>>)

\* the pieces of s between occurrences of the one-character separator sep
RECURSIVE FieldsFrom(_, _, _, _, _)
FieldsFrom(s, sep, i, cur, acc) ==
    IF i > Len(s) THEN Append(acc, cur)
    ELSE IF Ch(s, i) = sep
         THEN FieldsFrom(s, sep, i + 1, "", Append(acc, cur))
         ELSE FieldsFrom(s, sep, i + 1, cur \o Ch(s, i), acc)

Fields(s, sep) == FieldsFrom(s, sep, 1, "", <<>>)

\* parse_input: the exception of an empty unpacking, or the lowered command
\* token and the argument tokens
parse_input(user_input) ==
    LET toks == Split(user_input) IN
    IF toks = <<>>
    THEN [raised |-> TRUE, cmd |-> "", args |-> <<>>]
    ELSE [raised |-> FALSE, cmd |-> Lower(Head(toks)), args |-> Tail(toks)]

(***************************************************************************)
(* Dates                                                                   *)
(***************************************************************************)
IsLeap(y) == y % 4 = 0 /\ (y % 100 # 0 \/ y % 400 = 0)

DaysInMonth(y, m) ==
    CASE m \in {1, 3, 5, 7, 8, 10, 12} -> 31
      [] m \in {4, 6, 9, 11} -> 30
      [] m = 2 -> IF IsLeap(y) THEN 29 ELSE 28

RECURSIVE DaysBeforeMonth(_, _)
DaysBeforeMonth(y, m) ==
    IF m = 1 THEN 0 ELSE DaysBeforeMonth(y, m - 1) + DaysInMonth(y, m - 1)

\* date.toordinal(): 1 for 0001-01-01
Ordinal(y, m, d) ==
    (y - 1) * 365 + ((y - 1) \div 4) - ((y - 1) \div 100) + ((y - 1) \div 400)
    + DaysBeforeMonth(y, m) + d

\* date.weekday(): Monday is 0
Weekday(ord) == (ord + 6) % 7

\* the directive %d: 3[0-1] | [1-2]\d | 0[1-9] | [1-9] | " "[1-9]
MatchDay(s) ==
    \/ Len(s) = 2 /\ Ch(s, 1) = "3" /\ Ch(s, 2) \in {"0", "1"}
    \/ Len(s) = 2 /\ Ch(s, 1) \in {"1", "2"} /\ IsDigitChar(Ch(s, 2))
    \/ Len(s) = 2 /\ Ch(s, 1) \in {"0", " "} /\ Ch(s, 2) \in AsciiDigits \ {"0"}
    \/ Len(s) = 1 /\ Ch(s, 1) \in AsciiDigits \ {"0"}

\* the directive %m: 1[0-2] | 0[1-9] | [1-9]
MatchMonth(s) ==
    \/ Len(s) = 2 /\ Ch(s, 1) = "1" /\ Ch(s, 2) \in {"0", "1", "2"}
    \/ Len(s) = 2 /\ Ch(s, 1) = "0" /\ Ch(s, 2) \in AsciiDigits \ {"0"}
    \/ Len(s) = 1 /\ Ch(s, 1) \in AsciiDigits \ {"0"}

\* the directive %Y: \d\d\d\d
MatchYear(s) == Len(s) = 4 /\ IsDigit(s)

\* int() of the day group, whose leading character may be a space
DayOf(s) == IF Ch(s, 1) = " " THEN IntOf(SubSeq(s, 2, Len(s))) ELSE IntOf(s)

\* datetime.strptime(value, "%d.%m.%Y"): the parsed date, or a ValueError
strptime(value) ==
    LET f == Fields(value, ".") IN
    IF Len(f) = 3 /\ MatchDay(f[1]) /\ MatchMonth(f[2]) /\ MatchYear(f[3])
    THEN LET d == DayOf(f[1])
             m == IntOf(f[2])
             y == IntOf(f[3])
         IN IF y >= 1 /\ d <= DaysInMonth(y, m)
            THEN [raised |-> FALSE, ord |-> Ordinal(y, m, d)]
            ELSE [raised |-> TRUE, ord |-> 0]
    ELSE [raised |-> TRUE, ord |-> 0]

\* dates of the first and last day of the window of the week of 02.11.2026,
\* the day after it, and two malformed ones
GoodDates == {"15.11.2026", "21.11.2026", "22.11.2026"}

BadDates == {"31.02.2026", "2026-11-15"}

\* strptime of every date string that is an input, computed once
Parsed_date == [value \in GoodDates \cup BadDates \cup {""} |-> strptime(value)]

\* today + timedelta(days = n)
PlusDays(t, n) == [day |-> t.day + n, tod |-> t.tod]

\* datetime <= datetime
InstantLeq(a, b) == a.day < b.day \/ (a.day = b.day /\ a.tod <= b.tod)

(***************************************************************************)
(* Field, Phone, Birthday                                                  *)
(***************************************************************************)
PhoneLen == 10

InvalidPhoneMsg == "Invalid phone number format. Must be 10 digits."

InvalidDateMsg == "Invalid date format. Please use DD.MM.YYYY."

AlreadySetMsg == "Birthday already set."

\* Phone.__init__ raises ValueError
PhoneRaises(value) == ~IsDigit(value) \/ Len(value) # PhoneLen

\* Birthday.validate raises ValueError
BirthdayRaises(value) == Parsed_date[value].raised

(***************************************************************************)
(* Record: [name, phones, birthday]; birthday is <<>> for None and <<v>>   *)
(* for a Birthday object holding v                                         *)
(***************************************************************************)
Returned(b, v) == [exc |-> "none", val |-> v, book |-> b]

Raised(b, e, v) == [exc |-> e, val |-> v, book |-> b]

Record_add_phone(rec, phone) ==
    IF PhoneRaises(phone)
    THEN [rec |-> rec, val |-> InvalidPhoneMsg]
    ELSE [rec |-> [rec EXCEPT !.phones = Append(@, phone)],
          val |-> "Phone " \o phone \o " added."]

\* Record.add_birthday without the test that a birthday is already set
Record_add_birthday_overwrite(rec, date) ==
    IF BirthdayRaises(date)
    THEN [rec |-> rec, exc |-> "ValueError", val |-> InvalidDateMsg]
    ELSE [rec |-> [rec EXCEPT !.birthday = <<date>>], exc |-> "none", val |-> ""]

Record_add_birthday(rec, date) ==
    IF rec.birthday = <<>>
    THEN IF BirthdayRaises(date)
         THEN [rec |-> rec, exc |-> "ValueError", val |-> InvalidDateMsg]
         ELSE [rec |-> [rec EXCEPT !.birthday = <<date>>], exc |-> "none", val |-> ""]
    ELSE [rec |-> rec, exc |-> "ValueError", val |-> AlreadySetMsg]

Record_show_birthday(rec) ==
    IF rec.birthday # <<>> THEN "Birthday: " \o rec.birthday[1] ELSE "No birthday set."

\* Record(name, phone, birthday); "" is a falsy argument (None or "")
Record_init(name, phone, birthday) ==
    LET r0 == [name |-> name, phones |-> <<>>, birthday |-> <<>>]
        r1 == IF phone # "" THEN Record_add_phone(r0, phone).rec ELSE r0
    IN IF birthday # "" THEN Record_add_birthday(r1, birthday)
       ELSE [rec |-> r1, exc |-> "none", val |-> ""]

\* index of the first phone whose value is phone, 0 when there is none
RECURSIVE FirstIndex(_, _, _)
FirstIndex(phones, phone, i) ==
    IF i > Len(phones) THEN 0
    ELSE IF phones[i] = phone THEN i ELSE FirstIndex(phones, phone, i + 1)

Record_remove_phone(rec, phone) ==
    LET i == FirstIndex(rec.phones, phone, 1) IN
    IF i # 0
    THEN [rec |-> [rec EXCEPT !.phones = SubSeq(@, 1, i - 1) \o SubSeq(@, i + 1, Len(@))],
          val |-> "Phone " \o phone \o " removed."]
    ELSE [rec |-> rec, val |-> "Phone " \o phone \o " not found."]

\* Record.edit_phone without the return inside the loop: every occurrence of
\* old_phone is replaced
Record_edit_phone_all(rec, old_phone, new_phone) ==
    IF FirstIndex(rec.phones, old_phone, 1) # 0
    THEN IF PhoneRaises(new_phone)
         THEN [rec |-> rec, val |-> InvalidPhoneMsg]
         ELSE [rec |-> [rec EXCEPT !.phones =
                            [j \in 1..Len(@) |-> IF @[j] = old_phone THEN new_phone ELSE @[j]]],
               val |-> "Phone " \o old_phone \o " edited to " \o new_phone \o "."]
    ELSE [rec |-> rec, val |-> "Phone " \o old_phone \o " not found."]

Record_edit_phone(rec, old_phone, new_phone) ==
    LET i == FirstIndex(rec.phones, old_phone, 1) IN
    IF i # 0
    THEN IF PhoneRaises(new_phone)
         THEN [rec |-> rec, val |-> InvalidPhoneMsg]
         ELSE [rec |-> [rec EXCEPT !.phones[i] = new_phone],
               val |-> "Phone " \o old_phone \o " edited to " \o new_phone \o "."]
    ELSE [rec |-> rec, val |-> "Phone " \o old_phone \o " not found."]

RECURSIVE JoinPhones(_)
JoinPhones(phones) ==
    IF phones = <<>> THEN ""
    ELSE IF Len(phones) = 1 THEN phones[1]
    ELSE phones[1] \o "; " \o JoinPhones(Tail(phones))

Record_str(rec) ==
    "Contact name: " \o rec.name \o ", phones: " \o JoinPhones(rec.phones)
    \o Record_show_birthday(rec)

(***************************************************************************)
(* AddressBook: the dict as the sequence of its values in insertion order  *)
(***************************************************************************)
\* position of the key name in the dict, 0 when absent
RECURSIVE find(_, _)
find(b, name) ==
    IF b = <<>> THEN 0
    ELSE IF b[Len(b)].name = name /\ find(SubSeq(b, 1, Len(b) - 1), name) = 0
         THEN Len(b)
         ELSE find(SubSeq(b, 1, Len(b) - 1), name)

\* add_record on a list of records instead of a dict: always appends
add_record_append(b, record) == Append(b, record)

\* self.data[record.name.value] = record: an existing key keeps its place
add_record(b, record) ==
    IF find(b, record.name) # 0
    THEN [b EXCEPT ![find(b, record.name)] = record]
    ELSE Append(b, record)

delete(b, name) ==
    LET i == find(b, name) IN
    IF i # 0
    THEN [book |-> SubSeq(b, 1, i - 1) \o SubSeq(b, i + 1, Len(b)),
          val |-> "Contact " \o name \o " deleted."]
    ELSE [book |-> b, val |-> "Contact " \o name \o " not found."]

RECURSIVE get_birthdays_per_week(_, _)
get_birthdays_per_week(b, today) ==
    IF b = <<>> THEN <<>>
    ELSE LET record == b[Len(b)]
             rest == get_birthdays_per_week(SubSeq(b, 1, Len(b) - 1), today)
             next_week_start == PlusDays(today, (6 - Weekday(today.day)) + 7)
             next_week_end == PlusDays(next_week_start, 6)
         IN IF record.birthday # <<>>
            THEN LET birthday_date == [day |-> Parsed_date[record.birthday[1]].ord, tod |-> 0]
                 IN IF InstantLeq(next_week_start, birthday_date)
                       /\ InstantLeq(birthday_date, next_week_end)
                    THEN Append(rest, <<record.name, record.birthday[1]>>)
                    ELSE rest
            ELSE rest

(***************************************************************************)
(* Command handlers.  A handler body yields what it returned or raised and *)
(* the book it leaves; input_error turns that into the string returned.    *)
(***************************************************************************)
input_error(o) ==
    CASE o.exc = "none" -> o.val
      [] o.exc = "ValueError" -> o.val
      [] o.exc = "KeyError" -> "Contact not found."
      [] o.exc = "IndexError" -> "Invalid command format."

add_contact_body(args, b) ==
    IF Len(args) = 2
    THEN LET record == Record_init(args[1], args[2], "").rec
         IN Returned(add_record(b, record), "Contact added.")
    ELSE Raised(b, "ValueError", "Give me name and phone please.")

\* change_contact storing the new phone as given, without Phone()
change_contact_body_unvalidated(args, b) ==
    IF Len(args) = 2
    THEN LET i == find(b, args[1]) IN
         IF i # 0
         THEN IF b[i].phones = <<>>
              THEN Raised(b, "IndexError", "list assignment index out of range")
              ELSE Returned([b EXCEPT ![i].phones[1] = args[2]], "Contact updated.")
         ELSE Raised(b, "KeyError", "")
    ELSE Raised(b, "IndexError", "")

\* change_contact that adds the contact when the name is not in the book
change_contact_body_upsert(args, b) ==
    IF Len(args) = 2
    THEN LET i == find(b, args[1]) IN
         IF i # 0
         THEN IF PhoneRaises(args[2])
              THEN Raised(b, "ValueError", InvalidPhoneMsg)
              ELSE IF b[i].phones = <<>>
                   THEN Raised(b, "IndexError", "list assignment index out of range")
                   ELSE Returned([b EXCEPT ![i].phones[1] = args[2]], "Contact updated.")
         ELSE Returned(add_record(b, Record_init(args[1], args[2], "").rec), "Contact added.")
    ELSE Raised(b, "IndexError", "")

\* change_contact that stores the new value before it validates it
change_contact_body_store_first(args, b) ==
    IF Len(args) = 2
    THEN LET i == find(b, args[1]) IN
         IF i # 0
         THEN IF b[i].phones = <<>>
              THEN Raised(b, "IndexError", "list assignment index out of range")
              ELSE IF PhoneRaises(args[2])
                   THEN Raised([b EXCEPT ![i].phones[1] = args[2]], "ValueError", InvalidPhoneMsg)
                   ELSE Returned([b EXCEPT ![i].phones[1] = args[2]], "Contact updated.")
         ELSE Raised(b, "KeyError", "")
    ELSE Raised(b, "IndexError", "")

change_contact_body(args, b) ==
    IF Len(args) = 2
    THEN LET i == find(b, args[1]) IN
         IF i # 0
         THEN IF PhoneRaises(args[2])
              THEN Raised(b, "ValueError", InvalidPhoneMsg)
              ELSE IF b[i].phones = <<>>
                   THEN Raised(b, "IndexError", "list assignment index out of range")
                   ELSE Returned([b EXCEPT ![i].phones[1] = args[2]], "Contact updated.")
         ELSE Raised(b, "KeyError", "")
    ELSE Raised(b, "IndexError", "")

show_phone_body(args, b) ==
    IF Len(args) = 1
    THEN LET i == find(b, args[1]) IN
         IF i # 0 /\ b[i].phones # <<>>
         THEN Returned(b, b[i].phones[1])
         ELSE Raised(b, "KeyError", "")
    ELSE Raised(b, "ValueError", "Enter the contact name.")

\* str.rstrip()
RECURSIVE RStrip(_)
RStrip(s) ==
    IF Len(s) > 0 /\ Ch(s, Len(s)) \in Whitespace \cup {"\n"}
    THEN RStrip(SubSeq(s, 1, Len(s) - 1))
    ELSE s

RECURSIVE AllLines(_)
AllLines(b) ==
    IF b = <<>> THEN ""
    ELSE AllLines(SubSeq(b, 1, Len(b) - 1)) \o Record_str(b[Len(b)]) \o "\n"

show_all_body(b) ==
    IF b # <<>>
    THEN Returned(b, RStrip(AllLines(b)))
    ELSE Returned(b, "No contacts available.")

add_birthday_body(args, b) ==
    IF Len(args) = 2
    THEN LET i == find(b, args[1]) IN
         IF i # 0
         THEN LET r == Record_add_birthday(b[i], args[2]) IN
              IF r.exc = "none"
              THEN Returned([b EXCEPT ![i] = r.rec], "Birthday added for " \o args[1] \o ".")
              ELSE Returned(b, r.val)
         ELSE Returned(b, "Contact " \o args[1] \o " not found.")
    ELSE Returned(b, "Invalid command format. Use 'add_birthday [name] [DD.MM.YYYY]'.")

show_birthday_body(args, b) ==
    IF Len(args) = 0
    THEN Raised(b, "ValueError", "not enough values to unpack (expected 1, got 0)")
    ELSE IF Len(args) > 1
    THEN Raised(b, "ValueError", "too many values to unpack (expected 1)")
    ELSE LET i == find(b, args[1]) IN
         IF i # 0
         THEN Returned(b, Record_show_birthday(b[i]))
         ELSE Returned(b, "Contact " \o args[1] \o " not found.")

RECURSIVE JoinPairs(_)
JoinPairs(pairs) ==
    IF pairs = <<>> THEN ""
    ELSE IF Len(pairs) = 1 THEN pairs[1][1] \o ": " \o pairs[1][2]
    ELSE pairs[1][1] \o ": " \o pairs[1][2] \o "\n" \o JoinPairs(Tail(pairs))

birthdays_body(b, today) ==
    LET upcoming_birthdays == get_birthdays_per_week(b, today) IN
    IF upcoming_birthdays # <<>>
    THEN Returned(b, JoinPairs(upcoming_birthdays))
    ELSE Returned(b, "No upcoming birthdays in the next week.")

(***************************************************************************)
(* The inputs                                                              *)
(***************************************************************************)
Names == {"jane", "bob"}

\* two well-formed phones, one of ten digits the last of which is not ASCII,
\* and one each too short, too long and with letters
GoodPhones == {"1234567890", "0987654321"}

UnicodePhone == "012345678#"

BadPhones == {"12345", "12345678901", "12345abcde"}

Lines ==
    {"", "  \t", "HeLLo  ", "exit", "CLOSE now", "quit", "all", "Birthdays\t",
     "add", "add jane", "add jane 1234567890 extra",
     "add jane 1234567890", "add jane 012345678#", "add jane 12345",
     "add jane 12345abcde", "add jane 12345678901", "add bob 1234567890",
     "change jane", "change jane  0987654321", "change jane 12345",
     "change jane 012345678#", "change bob 0987654321", "change bob 12345abcde",
     "phone", "phone jane", "phone bob",
     "add_birthday jane", "add_birthday jane 15.11.2026",
     "add_birthday jane 21.11.2026", "add_birthday jane 22.11.2026",
     "add_birthday jane 31.02.2026", "add_birthday jane 2026-11-15",
     "add_birthday bob 15.11.2026",
     "show_birthday", "show_birthday jane bob", "show_birthday jane"}

\* the reference instants: each day of the week of Monday 02.11.2026, at
\* midnight and later in the day
Instants == {[day |-> Ordinal(2026, 11, 2) + i, tod |-> t] : i \in 0..6, t \in 0..MaxTod}

NoInstant == [day |-> 0, tod |-> 0]

\* parse_input of every line, computed once
Parsed == [ln \in Lines |-> parse_input(ln)]

Printed(s) == [exc |-> "none", val |-> s]

LineOp(ln) == [kind |-> "line", a |-> <<ln>>]

(***************************************************************************)
(* main                                                                    *)
(***************************************************************************)
Init ==
    /\ book = <<>>
    /\ pc = "loop"
    /\ op = [kind |-> "init", a |-> <<>>]
    /\ out = Printed("Welcome to the assistant bot!")
    /\ now = NoInstant
    /\ upcoming = <<>>

\* what one pass of the loop does when the handler's outcome is o
Step(ln, o) ==
    /\ op' = LineOp(ln)
    /\ book' = o.book
    /\ out' = Printed(input_error(o))
    /\ pc' = "loop"
    /\ now' = NoInstant
    /\ upcoming' = <<>>

\* parse_input raises on a line without a token; nothing in main catches it
Main_Unpack ==
    /\ pc = "loop"
    /\ \E ln \in Lines :
        /\ Parsed[ln].raised
        /\ op' = LineOp(ln)
        /\ out' = [exc |-> "ValueError",
                   val |-> "not enough values to unpack (expected at least 1, got 0)"]
        /\ pc' = "crashed"
        /\ now' = NoInstant
        /\ upcoming' = <<>>
        /\ UNCHANGED book

Main_Exit ==
    /\ pc = "loop"
    /\ \E ln \in Lines :
        /\ ~Parsed[ln].raised
        /\ Parsed[ln].cmd \in {"close", "exit"}
        /\ op' = LineOp(ln)
        /\ out' = Printed("Goodbye!")
        /\ pc' = "done"
        /\ now' = NoInstant
        /\ upcoming' = <<>>
        /\ UNCHANGED book

Dispatch(ln, command) ==
    /\ pc = "loop"
    /\ ~Parsed[ln].raised
    /\ Parsed[ln].cmd = command

Main_Hello ==
    \E ln \in Lines :
        /\ Dispatch(ln, "hello")
        /\ Step(ln, Returned(book, "How can I help you?"))

Main_Add ==
    \E ln \in Lines :
        /\ Dispatch(ln, "add")
        /\ Step(ln, add_contact_body(Parsed[ln].args, book))

Main_Change ==
    \E ln \in Lines :
        /\ Dispatch(ln, "change")
        /\ Step(ln, change_contact_body(Parsed[ln].args, book))

Main_Phone ==
    \E ln \in Lines :
        /\ Dispatch(ln, "phone")
        /\ Step(ln, show_phone_body(Parsed[ln].args, book))

Main_All ==
    \E ln \in Lines :
        /\ Dispatch(ln, "all")
        /\ Step(ln, show_all_body(book))

Main_AddBirthday ==
    \E ln \in Lines :
        /\ Dispatch(ln, "add_birthday")
        /\ Step(ln, add_birthday_body(Parsed[ln].args, book))

Main_ShowBirthday ==
    \E ln \in Lines :
        /\ Dispatch(ln, "show_birthday")
        /\ Step(ln, show_birthday_body(Parsed[ln].args, book))

Main_Birthdays ==
    \E ln \in Lines, today \in Instants :
        /\ Dispatch(ln, "birthdays")
        /\ op' = LineOp(ln)
        /\ book' = birthdays_body(book, today).book
        /\ out' = Printed(input_error(birthdays_body(book, today)))
        /\ pc' = "loop"
        /\ now' = today
        /\ upcoming' = get_birthdays_per_week(book, today)

Commands ==
    {"close", "exit", "hello", "add", "change", "phone", "all",
     "add_birthday", "show_birthday", "birthdays"}

Main_Invalid ==
    \E ln \in Lines :
        /\ pc = "loop"
        /\ ~Parsed[ln].raised
        /\ Parsed[ln].cmd \notin Commands
        /\ Step(ln, Returned(book, "Invalid command."))

Next ==
    \/ Main_Unpack
    \/ Main_Exit
    \/ Main_Hello
    \/ Main_Add
    \/ Main_Change
    \/ Main_Phone
    \/ Main_All
    \/ Main_AddBirthday
    \/ Main_ShowBirthday
    \/ Main_Birthdays
    \/ Main_Invalid

Spec == Init /\ [][Next]_vars

(***************************************************************************)
(* The classes used directly: a caller builds Records, stores and deletes  *)
(* them, and calls the methods of a Record it got from find.               *)
(***************************************************************************)
ApiOp(kind, a) == [kind |-> kind, a |-> a]

\* what a call leaves behind: the book b, and the value or exception r
Call(kind, a, b, r) ==
    /\ op' = ApiOp(kind, a)
    /\ book' = b
    /\ out' = r
    /\ now' = NoInstant
    /\ upcoming' = <<>>
    /\ UNCHANGED pc

\* book.add_record(Record(name, phone, birthday))
Api_add_record ==
    \E name \in Names, phone \in {"", "1234567890", "12345abcde"},
       birthday \in {"", "15.11.2026", "31.02.2026"} :
        LET r == Record_init(name, phone, birthday) IN
        IF r.exc = "none"
        THEN Call("add_record", <<name, phone, birthday>>, add_record(book, r.rec),
                  [exc |-> "none", val |-> ""])
        ELSE Call("add_record", <<name, phone, birthday>>, book,
                  [exc |-> r.exc, val |-> r.val])

\* book.delete(name)
Api_delete ==
    \E name \in Names :
        /\ name \in Names
        /\ Call("delete", <<name>>, delete(book, name).book,
                [exc |-> "none", val |-> delete(book, name).val])

\* the Record whose methods are called
Target == "jane"

\* book.find(Target).add_phone(phone)
Api_add_phone ==
    \E phone \in {"1234567890", "12345"} :
        LET i == find(book, Target) IN
        /\ i # 0
        /\ Len(book[i].phones) < MaxPhones
        /\ Call("add_phone", <<Target, phone>>,
                [book EXCEPT ![i] = Record_add_phone(book[i], phone).rec],
                [exc |-> "none", val |-> Record_add_phone(book[i], phone).val])

\* book.find(Target).remove_phone(phone)
Api_remove_phone ==
    \E phone \in {"1234567890", UnicodePhone} :
        LET i == find(book, Target) IN
        /\ i # 0
        /\ Call("remove_phone", <<Target, phone>>,
                [book EXCEPT ![i] = Record_remove_phone(book[i], phone).rec],
                [exc |-> "none", val |-> Record_remove_phone(book[i], phone).val])

\* book.find(Target).edit_phone(old_phone, new_phone)
Api_edit_phone ==
    \E old_phone \in GoodPhones, new_phone \in {"0987654321", "12345abcde"} :
        LET i == find(book, Target) IN
        /\ i # 0
        /\ Call("edit_phone", <<Target, old_phone, new_phone>>,
                [book EXCEPT ![i] = Record_edit_phone(book[i], old_phone, new_phone).rec],
                [exc |-> "none", val |-> Record_edit_phone(book[i], old_phone, new_phone).val])

\* book.find(Target).add_birthday(date)
Api_add_birthday ==
    \E date \in {"15.11.2026", "31.02.2026"} :
        LET i == find(book, Target) IN
        /\ i # 0
        /\ Call("add_birthday", <<Target, date>>,
                [book EXCEPT ![i] = Record_add_birthday(book[i], date).rec],
                [exc |-> Record_add_birthday(book[i], date).exc,
                 val |-> Record_add_birthday(book[i], date).val])

NextApi ==
    \/ Main_Add
    \/ Main_AddBirthday
    \/ Api_add_record
    \/ Api_delete
    \/ Api_add_phone
    \/ Api_remove_phone
    \/ Api_edit_phone
    \/ Api_add_birthday

SpecApi == Init /\ [][NextApi]_vars

(***************************************************************************)
(* Properties                                                              *)
(***************************************************************************)
TypeOK ==
    /\ pc \in {"loop", "done", "crashed"}
    /\ \A i \in 1..Len(book) : Len(book[i].birthday) <= 1

\* the operation o was the loop reading a line whose command token is c
IsCmd(o, c) == o.kind = "line" /\ ~Parsed[o.a[1]].raised /\ Parsed[o.a[1]].cmd = c

\* the argument tokens of that line
ArgsOf(o) == Parsed[o.a[1]].args

\* a string of exactly ten ASCII decimal digits
TenAsciiDigits(s) == Len(s) = 10 /\ \A i \in 1..Len(s) : Ch(s, i) \in AsciiDigits

\* the positions of the entries of b stored under the name n
Entries(b, n) == {i \in 1..Len(b) : b[i].name = n}

\* C1: no input line is fatal: whatever line was read, a response was
\* printed, and the loop has ended only if the command token was close or exit
C1_NoLineIsFatal ==
    op.kind = "line" =>
        /\ out.exc = "none"
        /\ pc # "loop" => (IsCmd(op, "close") \/ IsCmd(op, "exit"))

\* C2: add with two arguments returns the phone validation message of
\* add_phone when the phone is malformed, and "Contact added." only when the
\* phone was validated
C2_AddReportsMalformedPhone ==
    (IsCmd(op, "add") /\ Len(ArgsOf(op)) = 2) =>
        IF PhoneRaises(ArgsOf(op)[2])
        THEN out.val = InvalidPhoneMsg
        ELSE out.val = "Contact added."

\* C3 as stated: change with two arguments for a name in the book returns
\* "Contact updated." and leaves the new phone first, whatever the new phone
\* and whatever the contact
C3_ChangeAlwaysUpdates ==
    (IsCmd(op, "change") /\ Len(ArgsOf(op)) = 2 /\ find(book, ArgsOf(op)[1]) # 0) =>
        /\ out.val = "Contact updated."
        /\ book[find(book, ArgsOf(op)[1])].phones # <<>>
        /\ book[find(book, ArgsOf(op)[1])].phones[1] = ArgsOf(op)[2]

\* C3 amended: change with two arguments for a name in the book returns the
\* phone validation message and changes nothing when Phone rejects the new
\* phone; else returns "Invalid command format." and changes nothing when the
\* contact holds no phone; else returns "Contact updated." and replaces the
\* contact's first phone, and nothing else, by the new phone
C3_ChangeUpdatesValidated ==
    [][(IsCmd(op', "change") /\ Len(ArgsOf(op')) = 2 /\ find(book, ArgsOf(op')[1]) # 0) =>
        LET i == find(book, ArgsOf(op')[1])
            new_phone == ArgsOf(op')[2]
        IN IF ~IsDigit(new_phone) \/ Len(new_phone) # PhoneLen
           THEN out'.val = InvalidPhoneMsg /\ book' = book
           ELSE IF book[i].phones = <<>>
                THEN out'.val = "Invalid command format." /\ book' = book
                ELSE /\ out'.val = "Contact updated."
                     /\ book' = [book EXCEPT ![i].phones[1] = new_phone]
                     /\ book'[i].phones[1] = new_phone]_vars

\* a change that replaced the first phone of a contact
C3_Witness ==
    /\ IsCmd(op, "change")
    /\ Len(ArgsOf(op)) = 2
    /\ out.val = "Contact updated."
    /\ find(book, ArgsOf(op)[1]) # 0
    /\ book[find(book, ArgsOf(op)[1])].phones[1] = ArgsOf(op)[2]

\* C4: change with two arguments for a name that is not in the book returns
\* "Contact not found." and leaves the book as it was
C4_ChangeUnknownName ==
    [][(IsCmd(op', "change") /\ Len(ArgsOf(op')) = 2 /\ Entries(book, ArgsOf(op')[1]) = {}) =>
        (out' = Printed("Contact not found.") /\ book' = book)]_vars

\* a change for a name the book does not hold, while it holds another
C4_Witness ==
    /\ IsCmd(op, "change")
    /\ Len(ArgsOf(op)) = 2
    /\ Entries(book, ArgsOf(op)[1]) = {}
    /\ book # <<>>
    /\ out.val = "Contact not found."

\* C5: once a Record has a Birthday, add_birthday on it (the method, and the
\* command for that contact), with any date, fails with "Birthday already
\* set." and the stored Birthday stays
C5_BirthdaySetOnce ==
    [][/\ (op'.kind = "add_birthday" /\ book[find(book, op'.a[1])].birthday # <<>>) =>
            /\ out' = [exc |-> "ValueError", val |-> AlreadySetMsg]
            /\ book' = book
       /\ (/\ IsCmd(op', "add_birthday")
           /\ Len(ArgsOf(op')) = 2
           /\ Entries(book, ArgsOf(op')[1]) # {}
           /\ book[find(book, ArgsOf(op')[1])].birthday # <<>>) =>
            /\ out' = Printed(AlreadySetMsg)
            /\ book' = book]_vars

\* the command refused a second, well-formed and different, birthday
C5_Witness ==
    /\ IsCmd(op, "add_birthday")
    /\ Len(ArgsOf(op)) = 2
    /\ out.val = AlreadySetMsg
    /\ ~BirthdayRaises(ArgsOf(op)[2])
    /\ find(book, ArgsOf(op)[1]) # 0
    /\ book[find(book, ArgsOf(op)[1])].birthday # <<ArgsOf(op)[2]>>

\* the (name, birthday) pairs of the records of b, in order, whose birthday
\* falls on one of the calendar days first .. first + 6
RECURSIVE InWindow(_, _)
InWindow(b, first) ==
    IF b = <<>> THEN <<>>
    ELSE LET r == b[Len(b)]
             rest == InWindow(SubSeq(b, 1, Len(b) - 1), first)
         IN IF /\ r.birthday # <<>>
               /\ strptime(r.birthday[1]).ord >= first
               /\ strptime(r.birthday[1]).ord <= first + 6
            THEN Append(rest, <<r.name, r.birthday[1]>>)
            ELSE rest

\* C6: whatever the weekday and time of day of the reference instant, the
\* birthday query returns, in insertion order, exactly the records whose
\* birthday falls on one of the 7 days starting at
\* reference + (6 - weekday) + 7 days
C6_SevenDayWindow ==
    IsCmd(op, "birthdays") =>
        upcoming = InWindow(book, now.day + (6 - Weekday(now.day)) + 7)

\* the Records of b stored under the name n
Under(b, n) == {b[i] : i \in Entries(b, n)}

\* the operation o stored a Record: add_record on a Record that was built,
\* or the add command with its two arguments
Stores(o, res) ==
    \/ o.kind = "add_record" /\ res.exc = "none"
    \/ IsCmd(o, "add") /\ Len(ArgsOf(o)) = 2

\* the Record it stored
Stored(o) ==
    IF o.kind = "add_record"
    THEN Record_init(o.a[1], o.a[2], o.a[3]).rec
    ELSE Record_init(ArgsOf(o)[1], ArgsOf(o)[2], "").rec

\* C7: the book holds at most one Record per name; after add_record(r), by
\* the caller or by the add command, find(r.name) is r, whatever was stored
\* under that name before, and the entries under other names are as before
C7_LastWriteWins ==
    [][/\ \A n \in Names : Cardinality(Entries(book', n)) <= 1
       /\ Stores(op', out') =>
            LET r == Stored(op') IN
            /\ Under(book', r.name) = {r}
            /\ find(book', r.name) # 0
            /\ book'[find(book', r.name)] = r
            /\ \A n \in Names \ {r.name} : Under(book', n) = Under(book, n)]_vars

\* add_record replaced the entry of a name the book already held: the Record
\* stored is not the last of the book, where a new name would have gone
C7_Witness ==
    /\ op.kind = "add_record"
    /\ out.exc = "none"
    /\ Len(book) = 2
    /\ book[1] = Stored(op)
    /\ book[2].phones # <<>>

\* C8: every Phone a Record holds is a string of exactly 10 ASCII decimal
\* digits
C8_PhonesAreTenAsciiDigits ==
    \A i \in 1..Len(book) : \A j \in 1..Len(book[i].phones) :
        TenAsciiDigits(book[i].phones[j])

\* C9: edit_phone(old, new) leaves the list as it was and returns a not-found
\* result when old is absent; leaves the list as it was and returns the
\* validation message when old is present and Phone rejects new; and else
\* replaces the first occurrence of old, and nothing else, by new
C9_EditPhoneFrame ==
    [][op'.kind = "edit_phone" =>
        LET i == find(book, op'.a[1])
            old_phone == op'.a[2]
            new_phone == op'.a[3]
            at == {j \in 1..Len(book[i].phones) : book[i].phones[j] = old_phone}
        IN IF at = {}
           THEN book' = book /\ out'.val = "Phone " \o old_phone \o " not found."
           ELSE IF PhoneRaises(new_phone)
                THEN book' = book /\ out'.val = InvalidPhoneMsg
                ELSE LET k == CHOOSE j \in at : \A h \in at : j <= h IN
                     /\ book' = [book EXCEPT ![i].phones[k] = new_phone]
                     /\ out'.val = "Phone " \o old_phone \o " edited to " \o new_phone \o "."]_vars

\* edit_phone refused a malformed new phone for an old phone the Record holds
\* twice
C9_Witness ==
    /\ op.kind = "edit_phone"
    /\ out.val = InvalidPhoneMsg
    /\ find(book, op.a[1]) # 0
    /\ book[find(book, op.a[1])].phones = <<op.a[2], op.a[2]>>

\* C10: a command changes the book only when it returns one of "Contact
\* added.", "Contact updated." and "Birthday added for <name>."; no other
\* command and no failing command changes it
C10_ChangeOnlyOnSuccess ==
    [][book' # book =>
        \/ IsCmd(op', "add") /\ out' = Printed("Contact added.")
        \/ IsCmd(op', "change") /\ out' = Printed("Contact updated.")
        \/ /\ IsCmd(op', "add_birthday")
           /\ Len(ArgsOf(op')) = 2
           /\ out' = Printed("Birthday added for " \o ArgsOf(op')[1] \o ".")]_vars

\* a change was refused for a contact that holds a phone and a birthday
C10_Witness ==
    /\ IsCmd(op, "change")
    /\ Len(ArgsOf(op)) = 2
    /\ out.val = InvalidPhoneMsg
    /\ find(book, ArgsOf(op)[1]) # 0
    /\ book[find(book, ArgsOf(op)[1])].phones # <<>>
    /\ book[find(book, ArgsOf(op)[1])].birthday # <<>>

====
